---- MODULE Spec2Model ----
(***************************************************************************)
(* Model of the 2D ray-tracing engine of src/min/raytracing.py             *)
(* (propagate_rays, angle_wrap, OpticalObject, Mirror) together with the   *)
(* scene-building scripts src/test/test.py and src/min/test.py.            *)
(*                                                                         *)
(* Numbers.  Lengths are integers.  Angles are integer multiples of        *)
(* q = np.pi/4, so the model's PI is 4 and an angle a stands for a*q.      *)
(* Element orientations are multiples of pi/2.  A float64 is a record      *)
(* [k, v, x] of one of four kinds:                                         *)
(*   NaN        not-a-number                                               *)
(*   Fin(n)     exactly n (for an angle: exactly the float n*q)            *)
(*   Approx(n)  n up to float64 rounding: the float may differ from n in   *)
(*              its last digits, so it may fall on either side of n        *)
(*   Huge(s)    finite, of magnitude above 1e13, of sign s (s = 0: sign    *)
(*              not known): what np.tan returns next to a pole, and what   *)
(*              is computed from it                                        *)
(*   Any        finite, the value decided by rounding alone: a rounding    *)
(*              residual (cos(pi/2) = 6e-17) times a Huge                  *)
(* The arithmetic below gives, for each float64 operation of the code, the *)
(* kind of its result.  A comparison whose outcome float64 rounding        *)
(* decides (an Approx value exactly on the bound, an Any value) has both   *)
(* outcomes: the operators that contain one return the SET of their        *)
(* possible results, and the step that calls them takes any one of them.   *)
(* The float64 result of the code is one member of that set.               *)
(*                                                                         *)
(* Facts of float64 used (np.pi = 0x400921FB54442D18): n*q is              *)
(* representable, and arithmetic among such angles exact, iff the odd part *)
(* of n is below 10; cos and sin of a multiple of pi/2 are exactly 1.0 or  *)
(* -1.0, or a residual of size 1e-16 (exactly 0.0 only at the angle 0.0);  *)
(* tan is exactly 0.0 only at 0.0; n*q lies below the real n*pi/4 for      *)
(* n > 0, so tan at an exact odd multiple of pi/2 has the sign of n.       *)
(* aperture/2.0 is compared in doubled form (2*y > aperture).              *)
(***************************************************************************)
EXTENDS Integers, Sequences, FiniteSets

VARIABLES components, rays, pc, idx, r_idx, c_idx, ray_bundles

vars == <<components, rays, pc, idx, r_idx, c_idx, ray_bundles>>

\* ---------------------------------------------------------------- bounds
MaxComponents == 2
MaxRays == 2

\* ------------------------------------------------------------- constants
\* np.pi in units of np.pi/4
PI == 4

\* --------------------------------------------------------------- float64
NaN == [k |-> "nan", v |-> 0, x |-> FALSE]
Fin(n) == [k |-> "fin", v |-> n, x |-> TRUE]
Approx(n) == [k |-> "fin", v |-> n, x |-> FALSE]
Huge(s) == [k |-> "huge", v |-> s, x |-> FALSE]
Any == [k |-> "any", v |-> 0, x |-> FALSE]

\* np.isnan
isnan(f) == f.k = "nan"

Sign(n) == IF n > 0 THEN 1 ELSE IF n < 0 THEN -1 ELSE 0

\* is f the float 0.0 (or -0.0)?
IsZero(f) == f.k = "fin" /\ f.v = 0 /\ f.x

\* unary minus
FNeg(a) == IF a.k \in {"fin", "huge"} THEN [a EXCEPT !.v = -a.v] ELSE a

\* a + b
FAdd(a, b) ==
    IF isnan(a) \/ isnan(b) THEN NaN
    ELSE IF a.k = "fin" /\ b.k = "fin"
         THEN [k |-> "fin", v |-> a.v + b.v, x |-> a.x /\ b.x]
    ELSE IF a.k = "any" \/ b.k = "any" THEN Any
    ELSE IF a.k = "huge" /\ b.k = "huge"
         THEN (IF a.v = b.v /\ a.v # 0 THEN a ELSE Any)
    ELSE IF a.k = "huge" THEN a
    ELSE b

\* a - b
FSub(a, b) == FAdd(a, FNeg(b))

\* a * b: 0.0 times a finite float is 0.0; a rounding residual times a Huge
\* is a value of ordinary size that rounding alone decides
FMul(a, b) ==
    IF isnan(a) \/ isnan(b) THEN NaN
    ELSE IF IsZero(a) \/ IsZero(b) THEN Fin(0)
    ELSE IF a.k = "fin" /\ b.k = "fin"
         THEN [k |-> "fin", v |-> a.v * b.v, x |-> a.x /\ b.x]
    ELSE IF a.k = "any" \/ b.k = "any" THEN Any
    ELSE IF a.k = "huge" /\ b.k = "huge" THEN Huge(a.v * b.v)
    ELSE IF a.k = "huge"
         THEN (IF b.v = 0 THEN Any ELSE Huge(a.v * Sign(b.v)))
    ELSE (IF a.v = 0 THEN Any ELSE Huge(b.v * Sign(a.v)))

\* --------------------------------------------------------------- angles
RECURSIVE OddPart(_)
OddPart(n) == IF n = 0 THEN 0
              ELSE IF n < 0 THEN OddPart(-n)
              ELSE IF n % 2 = 0 THEN OddPart(n \div 2) ELSE n

\* is n*q a float64?
Representable(n) == OddPart(n) < 10

\* the float n*np.pi/4 of a script
Angle(n) == [k |-> "fin", v |-> n, x |-> Representable(n)]

\* a + b for angles: exact when the operands are and the sum is a float64
AAdd(a, b) ==
    LET s == FAdd(a, b)
    IN  IF s.k = "fin" THEN [s EXCEPT !.x = s.x /\ Representable(s.v)] ELSE s

\* np.cos, np.sin at a multiple n of pi/4 that is a multiple of pi/2
Cos(n) == CASE n % 8 = 0 -> Fin(1)
            [] n % 8 = 4 -> Fin(-1)
            [] OTHER -> Approx(0)
Sin(n) == CASE n = 0 -> Fin(0)
            [] n % 8 = 2 -> Fin(1)
            [] n % 8 = 6 -> Fin(-1)
            [] OTHER -> Approx(0)

\* np.tan at the angle f
FTan(f) ==
    IF f.k # "fin" THEN f
    ELSE CASE f.v % 4 = 0 -> IF IsZero(f) THEN Fin(0) ELSE Approx(0)
           [] f.v % 8 \in {1, 5} -> Approx(1)
           [] f.v % 8 \in {3, 7} -> Approx(-1)
           [] OTHER -> Huge(IF f.x THEN Sign(f.v) ELSE 0)

\* ---------------------------------------------------------- 3x3 matrices
\* A.dot(B) for 3x3 matrices of floats
Dot(A, B) ==
    [i \in 1..3 |-> [j \in 1..3 |->
        FAdd(FAdd(FMul(A[i][1], B[1][j]), FMul(A[i][2], B[2][j])),
             FMul(A[i][3], B[3][j]))]]

\* M.dot(p) for a 3x3 matrix and a column of three floats
DotVec(M, p) ==
    [i \in 1..3 |->
        FAdd(FAdd(FMul(M[i][1], p[1]), FMul(M[i][2], p[2])),
             FMul(M[i][3], p[3]))]

Det(M) ==
      M[1][1].v * (M[2][2].v * M[3][3].v - M[2][3].v * M[3][2].v)
    - M[1][2].v * (M[2][1].v * M[3][3].v - M[2][3].v * M[3][1].v)
    + M[1][3].v * (M[2][1].v * M[3][2].v - M[2][2].v * M[3][1].v)

\* the 2x2 minor of M without row i and column j
Minor(M, i, j) ==
    LET rs == IF i = 1 THEN <<2, 3>> ELSE IF i = 2 THEN <<1, 3>> ELSE <<1, 2>>
        cs == IF j = 1 THEN <<2, 3>> ELSE IF j = 2 THEN <<1, 3>> ELSE <<1, 2>>
    IN    M[rs[1]][cs[1]].v * M[rs[2]][cs[2]].v
        - M[rs[1]][cs[2]].v * M[rs[2]][cs[1]].v

\* scipy.linalg.inv of a rotation-translation matrix (determinant 1):
\* adjugate over determinant.  The inverse of a pure translation is exact;
\* the inverse of a matrix that carries rounding residuals carries them in
\* every entry
inv(M) ==
    LET exact == \A i \in 1..3 : \A j \in 1..3 : M[i][j].x
    IN  [i \in 1..3 |-> [j \in 1..3 |->
            [k |-> "fin",
             v |-> ((IF (i + j) % 2 = 0 THEN 1 ELSE -1) * Minor(M, j, i)) \div Det(M),
             x |-> exact]]]

\* ------------------------------------------------------------ angle_wrap
\* the set of results of angle_wrap(angle): the comparison with np.pi is
\* decided by rounding when angle is pi or -pi up to rounding
angle_wrap(angle) ==
    IF angle.k # "fin" THEN {angle}
    ELSE CASE angle.v > PI -> {AAdd(angle, Fin(-2 * PI))}
           [] angle.v < -PI -> {AAdd(angle, Fin(2 * PI))}
           [] angle.v = PI /\ ~angle.x -> {angle, AAdd(angle, Fin(-2 * PI))}
           [] angle.v = -PI /\ ~angle.x -> {angle, AAdd(angle, Fin(2 * PI))}
           [] OTHER -> {angle}

\* --------------------------------------------------------- OpticalObject
\* OpticalObject.create_xform: H = R.dot(T)
create_xform(theta, pos) ==
    LET R == << <<Cos(theta), FNeg(Sin(theta)), Fin(0)>>,
                <<Sin(theta), Cos(theta), Fin(0)>>,
                <<Fin(0), Fin(0), Fin(1)>> >>
        T == << <<Fin(1), Fin(0), Fin(-pos[1])>>,
                <<Fin(0), Fin(1), Fin(-pos[2])>>,
                <<Fin(0), Fin(0), Fin(1)>> >>
    IN  Dot(R, T)

\* OpticalObject.__init__
OpticalObject(aperture, pos, theta, name) ==
    [theta |-> theta, pos |-> pos, aperture |-> aperture, name |-> name,
     H |-> create_xform(theta, pos),
     Hinv |-> inv(create_xform(theta, pos))]

\* Mirror.__init__
Mirror(aperture, pos, theta) ==
    [f \in DOMAIN OpticalObject(aperture, pos, theta, "Mirror") \cup {"type"} |->
        IF f = "type" THEN "mirror"
        ELSE OpticalObject(aperture, pos, theta, "Mirror")[f]]

\* get_intersection, lines 123-133: y_new_tf, the local intersection
y_new_tf(self, orig, theta) ==
    LET p == <<orig[1], orig[2], Fin(1)>>
        p_new == DotVec(self.H, p)
        theta_new == AAdd(theta, Angle(self.theta))
    IN  FSub(p_new[2], FMul(p_new[1], FTan(theta_new)))

\* get_intersection, lines 135-139: the aperture test, as the set of its
\* outcomes; TRUE is flag = nan.  y > aperture/2.0 is 2*y > aperture.  A
\* comparison with not-a-number is false; a Huge y is beyond every aperture;
\* a y that is on the bound up to rounding, or decided by rounding, falls on
\* either side (every y misses a negative aperture)
aperture_miss(self, y) ==
    CASE isnan(y) -> {FALSE}
      [] y.k = "huge" -> {TRUE}
      [] y.k = "any" -> IF self.aperture < 0 THEN {TRUE} ELSE BOOLEAN
      [] OTHER ->
            LET out == 2 * y.v > self.aperture \/ 2 * y.v < -self.aperture
                inner == 2 * y.v < self.aperture /\ 2 * y.v > -self.aperture
            IN  IF out \/ inner \/ y.x THEN {out} ELSE BOOLEAN

\* get_intersection passing a terminated ray through as a no-op: it returns
\* the origin it was given, with a not-a-number flag
get_intersection_noop(self, orig, theta) ==
    IF isnan(theta) THEN {<<orig[1], orig[2], NaN>>}
    ELSE LET y == y_new_tf(self, orig, theta)
             p_final == DotVec(self.Hinv, <<Fin(0), y, Fin(1)>>)
         IN  {<<p_final[1], p_final[2], IF miss THEN NaN ELSE Fin(1)>> :
                 miss \in aperture_miss(self, y)}

\* get_intersection without the transform back to the global frame: it
\* returns the local point p_tf
get_intersection_local(self, orig, theta) ==
    IF isnan(theta) THEN {<<NaN, NaN, NaN>>}
    ELSE LET y == y_new_tf(self, orig, theta)
         IN  {<<Fin(0), y, IF miss THEN NaN ELSE Fin(1)>> :
                 miss \in aperture_miss(self, y)}

\* OpticalObject.get_intersection: the set of its possible results
get_intersection(self, orig, theta) ==
    IF isnan(theta) THEN {<<NaN, NaN, NaN>>}
    ELSE LET y == y_new_tf(self, orig, theta)
             p_tf == <<Fin(0), y, Fin(1)>>
             p_final == DotVec(self.Hinv, p_tf)
         IN  {<<p_final[1], p_final[2], IF miss THEN NaN ELSE Fin(1)>> :
                 miss \in aperture_miss(self, y)}

\* Mirror._get_angle: the set of its possible results
Mirror_get_angle(self, point, lmb, dest) ==
    angle_wrap(AAdd(AAdd(Fin(PI), FNeg(point[3])), Angle(-2 * self.theta)))

\* OpticalObject.propagate: the set of its possible results
propagate(self, point, lmb) ==
    UNION { IF isnan(dest[3]) THEN {dest}
            ELSE {<<dest[1], dest[2], a>> :
                     a \in Mirror_get_angle(self, point, lmb, dest)} :
            dest \in get_intersection(self, <<point[1], point[2]>>, point[3]) }

\* ------------------------------------------------------------ the scenes
\* the wavelength default of propagate_rays (525e-9), unused by Mirror
lmb == "525e-9"

\* rt.Mirror(aperture=..., pos=[..], theta=..) as the scripts construct
\* them: <<aperture, pos, theta>>, theta in units of pi/4
MirrorArgs ==
    { <<4, <<0, 0>>, 0>>,
      <<0, <<0, 0>>, 0>>,
      <<4, <<2, 2>>, 2>>,
      <<4, <<0, 0>>, PI>> }

\* rays.append([x, y, angle]) as the scripts construct them, and lists of
\* another length
RayArgs ==
    { <<Fin(-2), Fin(0), Angle(0)>>,
      <<Fin(-2), Fin(2), Angle(0)>>,
      <<Fin(-1), Fin(0), Angle(1)>>,
      <<Fin(-2), Fin(0), Angle(2)>>,
      <<Fin(-2), Fin(-1), Angle(-3 * PI)>>,
      <<Fin(-2), Fin(0), NaN>>,
      <<Fin(0)>>,
      <<Fin(0), Fin(0)>> }

ncomponents == Len(components)
nrays == Len(rays)

\* np.zeros((3, ncomponents+1)): the columns 0..ncomponents of a bundle are
\* the elements 1..ncomponents+1 of a sequence of (x, y, angle) triples
zeros == [c \in 1..(ncomponents + 1) |-> <<Fin(0), Fin(0), Fin(0)>>]

\* bundle[:, c]
Col(bundle, c) == bundle[c + 1]

\* can numpy assign sequence `ray` to a slice of shape (3,)?  A sequence of
\* length 3 fits, one of length 1 is broadcast, any other raises ValueError
Assignable(ray) == Len(ray) \in {1, 3}
Broadcast(ray) == IF Len(ray) = 1 THEN <<ray[1], ray[1], ray[1]>> ELSE ray

Init ==
    /\ components = <<>>
    /\ rays = <<>>
    /\ pc = "build"
    /\ idx = 0
    /\ r_idx = 0
    /\ c_idx = 1
    /\ ray_bundles = <<>>

\* components.append(rt.Mirror(...))  (test.py)
AddMirror ==
    /\ pc = "build"
    /\ rays = <<>>
    /\ Len(components) < MaxComponents
    /\ \E m \in MirrorArgs : components' = Append(components, Mirror(m[1], m[2], m[3]))
    /\ UNCHANGED <<rays, pc, idx, r_idx, c_idx, ray_bundles>>

\* rays.append([...])  (test.py)
AddRay ==
    /\ pc = "build"
    /\ Len(rays) < MaxRays
    /\ \E r \in RayArgs : rays' = Append(rays, r)
    /\ UNCHANGED <<components, pc, idx, r_idx, c_idx, ray_bundles>>

\* ray_bundles = rt.propagate_rays(components, rays): entry, lines 30-32
Call ==
    /\ pc = "build"
    /\ ray_bundles' = <<>>
    /\ idx' = 0
    /\ c_idx' = 1
    /\ IF nrays = 0
       THEN pc' = "prop" /\ r_idx' = 0
       ELSE pc' = "setup" /\ r_idx' = 0
    /\ UNCHANGED <<components, rays>>

\* one iteration of the first loop, lines 34-36
SetupRay ==
    /\ pc = "setup"
    /\ idx < nrays
    /\ IF Assignable(rays[idx + 1])
       THEN /\ ray_bundles' = Append(ray_bundles,
                                     [zeros EXCEPT ![1] = Broadcast(rays[idx + 1])])
            /\ idx' = idx + 1
            /\ pc' = IF idx + 1 = nrays THEN "prop" ELSE "setup"
       ELSE \* ValueError propagates out of propagate_rays
            /\ ray_bundles' = Append(ray_bundles, zeros)
            /\ idx' = idx
            /\ pc' = "error"
    /\ r_idx' = IF ncomponents = 0 THEN nrays ELSE 0
    /\ c_idx' = 1
    /\ UNCHANGED <<components, rays>>

\* the nested loops propagating every column from column 0, the input ray
PropagateStep_from_input ==
    /\ pc = "prop"
    /\ r_idx < nrays
    /\ c_idx <= ncomponents
    /\ \E dest \in propagate(components[c_idx], Col(ray_bundles[r_idx + 1], 0), lmb) :
          ray_bundles' = [ray_bundles EXCEPT ![r_idx + 1][c_idx + 1] = dest]
    /\ IF c_idx = ncomponents
       THEN r_idx' = r_idx + 1 /\ c_idx' = 1
       ELSE r_idx' = r_idx /\ c_idx' = c_idx + 1
    /\ UNCHANGED <<components, rays, pc, idx>>

\* the nested loops taking the components in reverse list order
PropagateStep_reversed ==
    /\ pc = "prop"
    /\ r_idx < nrays
    /\ c_idx <= ncomponents
    /\ \E dest \in propagate(components[ncomponents + 1 - c_idx],
                       Col(ray_bundles[r_idx + 1], c_idx - 1), lmb) :
          ray_bundles' = [ray_bundles EXCEPT ![r_idx + 1][c_idx + 1] = dest]
    /\ IF c_idx = ncomponents
       THEN r_idx' = r_idx + 1 /\ c_idx' = 1
       ELSE r_idx' = r_idx /\ c_idx' = c_idx + 1
    /\ UNCHANGED <<components, rays, pc, idx>>

\* the nested loops reading the previous column from the first ray's bundle
PropagateStep_cross ==
    /\ pc = "prop"
    /\ r_idx < nrays
    /\ c_idx <= ncomponents
    /\ \E dest \in propagate(components[c_idx], Col(ray_bundles[1], c_idx - 1), lmb) :
          ray_bundles' = [ray_bundles EXCEPT ![r_idx + 1][c_idx + 1] = dest]
    /\ IF c_idx = ncomponents
       THEN r_idx' = r_idx + 1 /\ c_idx' = 1
       ELSE r_idx' = r_idx /\ c_idx' = c_idx + 1
    /\ UNCHANGED <<components, rays, pc, idx>>

\* one iteration of the nested loops, lines 39-43
PropagateStep ==
    /\ pc = "prop"
    /\ r_idx < nrays
    /\ c_idx <= ncomponents
    /\ \E dest \in propagate(components[c_idx], Col(ray_bundles[r_idx + 1], c_idx - 1), lmb) :
          ray_bundles' = [ray_bundles EXCEPT ![r_idx + 1][c_idx + 1] = dest]
    /\ IF c_idx = ncomponents
       THEN r_idx' = r_idx + 1 /\ c_idx' = 1
       ELSE r_idx' = r_idx /\ c_idx' = c_idx + 1
    /\ UNCHANGED <<components, rays, pc, idx>>

\* line 46
Return ==
    /\ pc = "prop"
    /\ r_idx = nrays
    /\ pc' = "done"
    /\ UNCHANGED <<components, rays, idx, r_idx, c_idx, ray_bundles>>

Next ==
    \/ AddMirror
    \/ AddRay
    \/ Call
    \/ SetupRay
    \/ PropagateStep
    \/ Return

Spec == Init /\ [][Next]_vars

\* ================================================================ claims
\* the propagate calls behind the returned histories: <<r, i>> is ray r
\* crossing element i, from state i-1 to state i of history r
Calls == IF pc = "done" THEN (1..nrays) \X (1..ncomponents) ELSE {}

\* the calls on rays given as 3-sequences
Calls3 == {ri \in Calls : Len(rays[ri[1]]) = 3}

\* state c of ray r's history
State(r, c) == Col(ray_bundles[r], c)

AllNaN == <<NaN, NaN, NaN>>

\* every propagate call behind the returned histories had one possible
\* result: float64 rounding decided no comparison of the run
Deterministic ==
    \A ri \in Calls :
        Cardinality(propagate(components[ri[2]], State(ri[1], ri[2] - 1), lmb)) = 1

\* for a float y: |y| > aperture/2 for certain; |y| <= aperture/2 for
\* certain; |y| = aperture/2 exactly
Abs(n) == IF n < 0 THEN -n ELSE n
Outside(self, y) ==
    \/ y.k = "huge"
    \/ y.k = "any" /\ self.aperture < 0
    \/ y.k = "fin" /\ 2 * Abs(y.v) > self.aperture
OnBoundary(self, y) == y.k = "fin" /\ y.x /\ 2 * Abs(y.v) = self.aperture
Within(self, y) ==
    \/ y.k = "fin" /\ 2 * Abs(y.v) < self.aperture
    \/ OnBoundary(self, y)

\* the local intersection of call <<r, i>>
YLocal(r, i) ==
    y_new_tf(components[i], <<State(r, i - 1)[1], State(r, i - 1)[2]>>,
             State(r, i - 1)[3])

\* C1: in every returned history, once a state has a not-a-number angle,
\* every later state has a not-a-number angle.
C1_TerminationAbsorbing ==
    pc = "done" =>
        \A r \in 1..nrays : \A k, j \in 0..ncomponents :
            (k < j /\ isnan(State(r, k)[3])) => isnan(State(r, j)[3])

\* a returned history whose ray missed element 1 and stays terminated at
\* element 2
C1_Witness ==
    /\ pc = "done"
    /\ ncomponents = 2
    /\ \E r \in 1..nrays :
        /\ ~isnan(State(r, 0)[3])
        /\ isnan(State(r, 1)[3])
        /\ isnan(State(r, 2)[3])

\* C2 as claimed: in every returned history, every state after a
\* terminated state k equals state k in all three fields (checked on the
\* runs where rounding decided nothing).
C2_TerminatedStatePreserved ==
    (pc = "done" /\ Deterministic) =>
        \A r \in 1..nrays : \A k, j \in 0..ncomponents :
            (k < j /\ isnan(State(r, k)[3])) => State(r, j) = State(r, k)

\* C2 amended: in every returned history, every state after a terminated
\* state k is the triple (nan, nan, nan).
C2_TerminatedMarkerRepeats ==
    pc = "done" =>
        \A r \in 1..nrays : \A k, j \in 0..ncomponents :
            (k < j /\ isnan(State(r, k)[3])) => State(r, j) = AllNaN

\* a miss recorded with finite coordinates at element 1, followed by the
\* all-nan marker at element 2
C2_Witness ==
    /\ pc = "done"
    /\ ncomponents = 2
    /\ \E r \in 1..nrays :
        /\ isnan(State(r, 1)[3])
        /\ ~isnan(State(r, 1)[1])
        /\ State(r, 2) = AllNaN
        /\ State(r, 2) # State(r, 1)

\* C3: propagate_rays raises only when some ray is not a 3-sequence, and
\* otherwise returns one history per ray, in ray order, of ncomponents+1
\* states: state 0 is the ray and state i is a result of element i's
\* propagate on state i-1.
C3_HistoryShape ==
    /\ pc = "error" => \E r \in 1..nrays : Len(rays[r]) # 3
    /\ (pc = "done" /\ \A r \in 1..nrays : Len(rays[r]) = 3) =>
          /\ Len(ray_bundles) = nrays
          /\ \A r \in 1..nrays :
                /\ Len(ray_bundles[r]) = ncomponents + 1
                /\ State(r, 0) = rays[r]
                /\ \A i \in 1..ncomponents :
                      State(r, i) \in propagate(components[i], State(r, i - 1), lmb)

\* two different rays returned through two different mirrors, one of them
\* reflected by both
C3_Witness ==
    /\ pc = "done"
    /\ nrays = 2
    /\ ncomponents = 2
    /\ \A r \in 1..nrays : Len(rays[r]) = 3
    /\ rays[1] # rays[2]
    /\ components[1] # components[2]
    /\ \E r \in 1..nrays : ~isnan(State(r, 2)[3])

\* C4: a ray reaching an element with a finite angle leaves it with a
\* not-a-number angle when |y_local| > aperture/2 and with a finite one when
\* |y_local| <= aperture/2; after a miss its x, y are finite, and where
\* y_local is of ordinary size they are the global coordinates of the local
\* point (0, y_local): H maps them to (0, y_local, 1).
C4_MissRecorded ==
    \A ri \in Calls :
        LET r == ri[1]
            i == ri[2]
            out == State(r, i)
            y == YLocal(r, i)
            back == DotVec(components[i].H, <<out[1], out[2], Fin(1)>>)
        IN  ~isnan(State(r, i - 1)[3]) =>
              /\ Outside(components[i], y) => isnan(out[3])
              /\ Within(components[i], y) => ~isnan(out[3])
              /\ isnan(out[3]) =>
                    /\ ~isnan(out[1])
                    /\ ~isnan(out[2])
                    /\ y.k = "fin" =>
                          /\ \A c \in 1..3 : back[c].k = "fin"
                          /\ <<back[1].v, back[2].v, back[3].v>> = <<0, y.v, 1>>

\* a certain miss, at an ordinary distance, at a mirror that is rotated and
\* away from the origin
C4_Witness ==
    \E ri \in Calls :
        /\ ~isnan(State(ri[1], ri[2] - 1)[3])
        /\ isnan(State(ri[1], ri[2])[3])
        /\ YLocal(ri[1], ri[2]).k = "fin"
        /\ Outside(components[ri[2]], YLocal(ri[1], ri[2]))
        /\ components[ri[2]].theta # 0
        /\ components[ri[2]].pos # <<0, 0>>

\* C5 as claimed: a live ray crossing at exactly |y_local| = aperture/2 is
\* a miss (checked on the runs where rounding decided nothing, at the
\* crossings whose y_local is exactly on the edge of a mirror of positive
\* aperture; aperture = 0 is the case of C6).
C5_BoundaryIsMiss ==
    Deterministic =>
        \A ri \in Calls3 :
            (/\ ~isnan(State(ri[1], ri[2] - 1)[3])
             /\ components[ri[2]].aperture > 0
             /\ OnBoundary(components[ri[2]], YLocal(ri[1], ri[2])))
                => isnan(State(ri[1], ri[2])[3])

\* C6 as claimed: an element of aperture <= 0 terminates every ray.
C6_DegenerateApertureRejects ==
    Deterministic =>
        \A ri \in Calls3 :
            components[ri[2]].aperture <= 0 => isnan(State(ri[1], ri[2])[3])

\* reduction of an angle into (-pi, pi]
Reduced(n) == LET m == n % (2 * PI) IN IF m > PI THEN m - 2 * PI ELSE m
InHalfOpen(a) == a.k = "fin" /\ -PI < a.v /\ a.v <= PI

\* C7 as claimed: a ray reflected by a mirror leaves with the angle
\* pi - theta_in - 2*theta_element reduced into (-pi, pi], and that angle is
\* in (-pi, pi] whenever theta_in and theta_element are.
C7_MirrorLaw ==
    Deterministic =>
        \A ri \in Calls3 :
            LET in == State(ri[1], ri[2] - 1)[3]
                out == State(ri[1], ri[2])[3]
                el == components[ri[2]]
            IN  ~isnan(out) =>
                  /\ out.k = "fin"
                  /\ out.v = Reduced(PI - in.v - 2 * el.theta)
                  /\ (InHalfOpen(in) /\ InHalfOpen(Angle(el.theta)))
                        => InHalfOpen(out)

\* the argument _get_angle hands to angle_wrap in call <<r, i>>, made when
\* the ray hit element i
WrapArg(r, i) ==
    AAdd(AAdd(Fin(PI), FNeg(State(r, i - 1)[3])), Angle(-2 * components[i].theta))

\* C8 as claimed: angle_wrap returns a value in (-pi, pi] for every finite
\* angle it is called with, and angle_wrap(angle_wrap(theta)) =
\* angle_wrap(theta).
C8_AngleWrapRange ==
    Deterministic =>
        \A ri \in Calls3 :
            LET theta == WrapArg(ri[1], ri[2])
            IN  (~isnan(State(ri[1], ri[2])[3]) /\ ~isnan(theta)) =>
                  \A w \in angle_wrap(theta) :
                      /\ InHalfOpen(w)
                      /\ angle_wrap(w) = {w}

\* the histories one ray can have through a component list, computed from
\* that ray and the list alone
RECURSIVE Histories(_, _, _)
Histories(comps, ray, n) ==
    IF n = 0 THEN {<<ray>>}
    ELSE UNION { {Append(h, dest) : dest \in propagate(comps[n], h[n], lmb)} :
                 h \in Histories(comps, ray, n - 1) }

\* C9: a call changes neither the components nor the input rays, and every
\* returned history is a history of its own ray through the components,
\* whatever the other rays and its position among them.
C9_PureIndependent ==
    /\ [][pc # "build" => (components' = components /\ rays' = rays)]_vars
    /\ [](pc = "done" =>
            \A r \in 1..nrays :
                ray_bundles[r] \in Histories(components, Broadcast(rays[r]), ncomponents))

\* two different rays returned with two different histories
C9_Witness ==
    /\ pc = "done"
    /\ nrays = 2
    /\ ncomponents >= 1
    /\ \A r \in 1..nrays : Len(rays[r]) = 3
    /\ rays[1] # rays[2]
    /\ ray_bundles[1] # ray_bundles[2]
    /\ Histories(components, rays[2], ncomponents) = {ray_bundles[2]}
    /\ \E r \in 1..nrays : ~isnan(State(r, ncomponents)[3])

\* C10 as claimed: propagate_rays returns histories only when every input
\* ray is a sequence of exactly 3 numbers.
C10_MalformedRayRaises ==
    pc = "done" => \A r \in 1..nrays : Len(rays[r]) = 3

====
